---- MODULE Spec2Model ----
(***************************************************************************)
(* The history engine of App.tsx (useHistoryState): the undo/redo stacks   *)
(* around the design document, the merge of the stored payload with the    *)
(* defaults at session start, and the effect that writes `present` back to *)
(* localStorage after a render.                                            *)
(*                                                                         *)
(* A JavaScript object is a sequence of <<key, value>> pairs in insertion  *)
(* order with distinct keys; a value is the JSON text of a primitive.      *)
(* A document object of the history carries a reference `ref` (its         *)
(* identity, which React compares in effect dependencies) and its          *)
(* properties `kv`.                                                        *)
(***************************************************************************)
EXTENDS Integers, Sequences, FiniteSets, TLC

\* The number of document objects one session may allocate (set calls that
\* change present); refs 0 and 1 are DEFAULT_DESIGN and the merged document.
MaxRef == 3

STORAGE_KEY == "design-forge-storage-v1"

\* DesignSystem restricted to three of its fields, one per value type.
DEFAULT_DESIGN ==
    << <<"primaryColor", "\"#3b82f6\"">>,
       <<"darkMode", "true">>,
       <<"gridColumns", "3">> >>

SchemaKeys == {DEFAULT_DESIGN[i][1] : i \in DOMAIN DEFAULT_DESIGN}

\* The values the controls and the assistant's tool can give each field.
FieldValues(k) ==
    CASE k = "primaryColor" -> {"\"#3b82f6\"", "\"#60a5fa\""}
      [] k = "darkMode"     -> {"false"}
      [] k = "gridColumns"  -> {"4"}

----------------------------------------------------------------------------
(* JavaScript objects *)

Keys(o) == {o[i][1] : i \in DOMAIN o}

HasKey(o, k) == k \in Keys(o)

IndexOf(o, k) == CHOOSE i \in DOMAIN o : o[i][1] = k

Get(o, k) == o[IndexOf(o, k)][2]

\* o[k] = v: an existing key keeps its position, a new key goes last.
Put(o, k, v) ==
    IF HasKey(o, k)
    THEN [o EXCEPT ![IndexOf(o, k)] = <<k, v>>]
    ELSE Append(o, <<k, v>>)

\* Array-index keys ("0", "1", ...) are enumerated before all other keys.
IsIndexKey(p) == p[1] \in {"0", "1"}

IsNameKey(p) == ~IsIndexKey(p)

\* OrdinaryOwnPropertyKeys: index keys first, then insertion order.
OwnProperties(o) == SelectSeq(o, IsIndexKey) \o SelectSeq(o, IsNameKey)

RECURSIVE AssignAll(_, _)
AssignAll(o, props) ==
    IF props = <<>> THEN o
    ELSE AssignAll(Put(o, Head(props)[1], Head(props)[2]), Tail(props))

\* { ...a, ...b }
Spread(a, b) == AssignAll(AssignAll(<<>>, OwnProperties(a)), OwnProperties(b))

----------------------------------------------------------------------------
(* JSON text and the localStorage slot *)

\* A stored item (or any JSON text) is [kind, props]:
\*   "missing"  getItem returns null          "empty"  the empty string
\*   "invalid"  text JSON.parse rejects       "object" {"k": v, ...}
\*   "string"   "ab"      "array" [x, y]      "number" 7      "null" null
\* props lists the own enumerable properties of the parsed value, in the
\* order of the text.
Item(kind, props) == [kind |-> kind, props |-> props]

NoItem == Item("missing", <<>>)

\* JSON.stringify of an object with primitive values: its properties in
\* enumeration order.
JSONstringify(o) == Item("object", OwnProperties(o))

\* JSON.parse throws a SyntaxError on text that is not JSON ("" included).
JSONparseThrows(item) == item.kind \in {"invalid", "empty"}

\* if (item): null and "" are falsy, every other string is truthy.
Truthy(item) == item.kind \notin {"missing", "empty"}

\* What a spread copies from the parsed value: the properties of an object,
\* the elements of an array, the characters of a string, nothing from a
\* number or null.
JSONparse(item) ==
    IF item.kind \in {"object", "array", "string"} THEN item.props ELSE <<>>

----------------------------------------------------------------------------
(* useHistoryState *)

Doc(ref, kv) == [ref |-> ref, kv |-> kv]

History(past, present, future) ==
    [past |-> past, present |-> present, future |-> future]

\* initialValue: the DEFAULT_DESIGN object itself.
initialValue == Doc(0, DEFAULT_DESIGN)

\* initialHistory with the spread the other way round: defaults win.
initialHistoryDefaultsWin(item, denied) ==
    IF ~denied /\ Truthy(item) /\ ~JSONparseThrows(item)
    THEN History(<<>>, Doc(1, Spread(JSONparse(item), initialValue.kv)), <<>>)
    ELSE History(<<>>, initialValue, <<>>)

\* The lazy initializer of useState: `item` is what the slot holds and
\* `denied` says that getItem throws.
initialHistory(item, denied) ==
    IF ~denied /\ Truthy(item) /\ ~JSONparseThrows(item)
    THEN History(<<>>, Doc(1, Spread(initialValue.kv, JSONparse(item))), <<>>)
    ELSE History(<<>>, initialValue, <<>>)

\* newState is [fn, kv]: the function prev => ({ ...prev, ...kv }) when fn,
\* else the literal document kv.
Updater(fn, kv) == [fn |-> fn, kv |-> kv]

ApplyUpdater(newState, prev) ==
    IF newState.fn THEN Spread(prev.kv, newState.kv) ELSE newState.kv

\* setStateCurr that puts the old present in front of past.
setStateCurrPrepend(curr, newState, ref) ==
    LET value == ApplyUpdater(newState, curr.present)
    IN  IF JSONstringify(value) = JSONstringify(curr.present.kv)
        THEN curr
        ELSE History(<<curr.present>> \o curr.past, Doc(ref, value), <<>>)

\* setStateCurr that keeps future.
setStateCurrKeepFuture(curr, newState, ref) ==
    LET value == ApplyUpdater(newState, curr.present)
    IN  IF JSONstringify(value) = JSONstringify(curr.present.kv)
        THEN curr
        ELSE History(Append(curr.past, curr.present), Doc(ref, value), curr.future)

\* The updater setState hands to setHistory; ref names the object `value`.
setStateCurr(curr, newState, ref) ==
    LET value == ApplyUpdater(newState, curr.present)
    IN  IF JSONstringify(value) = JSONstringify(curr.present.kv)
        THEN curr
        ELSE History(Append(curr.past, curr.present), Doc(ref, value), <<>>)

\* undoCurr that puts the old present at the end of future.
undoCurrAppendFuture(curr) ==
    IF Len(curr.past) = 0 THEN curr
    ELSE History(SubSeq(curr.past, 1, Len(curr.past) - 1),
                 curr.past[Len(curr.past)],
                 Append(curr.future, curr.present))

\* undoCurr that drops the old present instead of keeping it in future.
undoCurrDropsPresent(curr) ==
    IF curr.past = <<>> THEN curr
    ELSE History(SubSeq(curr.past, 1, Len(curr.past) - 1),
                 curr.past[Len(curr.past)],
                 curr.future)

\* undoCurr without the guard on an empty past.
undoCurrNoGuard(curr) ==
    IF Len(curr.past) = 0
    THEN History(<<>>, curr.present, <<curr.present>> \o curr.future)
    ELSE History(SubSeq(curr.past, 1, Len(curr.past) - 1),
                 curr.past[Len(curr.past)],
                 <<curr.present>> \o curr.future)

undoCurr(curr) ==
    IF Len(curr.past) = 0 THEN curr
    ELSE LET previous == curr.past[Len(curr.past)]
             newPast == SubSeq(curr.past, 1, Len(curr.past) - 1)
         IN  History(newPast, previous, <<curr.present>> \o curr.future)

\* redoCurr that puts the old present in front of past.
redoCurrPrependPast(curr) ==
    IF Len(curr.future) = 0 THEN curr
    ELSE History(<<curr.present>> \o curr.past, curr.future[1], Tail(curr.future))

\* redoCurr that takes the farthest entry of future.
redoCurrTakesLast(curr) ==
    IF Len(curr.future) = 0 THEN curr
    ELSE History(Append(curr.past, curr.present),
                 curr.future[Len(curr.future)],
                 SubSeq(curr.future, 1, Len(curr.future) - 1))

redoCurr(curr) ==
    IF Len(curr.future) = 0 THEN curr
    ELSE LET next == curr.future[1]
             newFuture == Tail(curr.future)
         IN  History(Append(curr.past, curr.present), next, newFuture)

----------------------------------------------------------------------------
(* The session: React state, renders, the storage effect *)

VARIABLES
    storage,        \* localStorage: key -> item
    accessDenied,   \* localStorage throws on every access (SecurityError)
    history,        \* the state of useState, every queued updater applied
    nextRef,        \* the next fresh object reference
    rendered,       \* what the last render saw: present, canUndo, canRedo
    effectPending,  \* the storage effect of the last render has not yet run
    lastWrite,      \* the last setItem call: [ref, key, ok]
    unwritten,      \* refs an operation made present, not passed to setItem since
    last,           \* the last operation: [op, before, value]
    trip,           \* progress of a set^N undo^N redo^N run: [phase, n, k, final, initial]
    isSaved,        \* Playground: useState(false), the "saved" indicator shows
    isFirstRender,  \* Playground: useRef(true).current
    saveTimer,      \* the timeout of the auto-save effect: [armed, left]
    hideTimer,      \* the timeout of the auto-hide effect: [armed, left]
    changeSeen,     \* the auto-save effect has run for a changed design
    sinceChange,    \* ms since it last did
    savedFor,       \* ms since isSaved last became true
    deferredDesign, \* Playground: what useDeferredValue(design) returned at the last commit
    docSeq,         \* the documents that have been present, in order
    renderedAt,     \* the place in docSeq of the design of the last render
    shownAt,        \* the place in docSeq of deferredDesign
    shownBefore,    \* the place in docSeq of what deferredDesign was before
    listener,       \* the keydown listener on window: [on, canUndo, canRedo]
    lastKey,        \* the keydown the listener has just handled: [on, e, before]
    text,           \* the argument of renderFormattedText, a sequence of characters
    output,         \* what renderFormattedText returned: [done, null, nodes]
    queue,          \* React: the updaters given to setHistory since the last render
    committed,      \* React: the state of useState at the last render: [history, batch]
    timeouts,       \* window: the live timeouts, a set of [id, cb, left]
    cleanups,       \* Playground: the id each effect's cleanup will clear: [save, hide], 0 for none
    timerLog,       \* the ids given so far, cleared while live, and fired: [next, cleared, fired]
    currentView,    \* App: useState(ViewState.PLAYGROUND)
    session,        \* the page: "running" or "ended"
    listeners,      \* window: the number of handleKeyDown listeners on keydown
    keyCleanup,     \* Playground: the keydown effect has run and its cleanup is due
    input,          \* ChatBot: useState('')
    isTyping,       \* ChatBot: useState(false)
    isProcessingTool, \* ChatBot: useState(false)
    calls,          \* the runs of handleSend that await a response: [id, pc, sent]
    nextCall,       \* the number of the next run of handleSend
    applied         \* the tool call that was the last change of the history, if one was

indVars == <<isSaved, isFirstRender, saveTimer, hideTimer, changeSeen, sinceChange, savedFor>>

deferVars == <<deferredDesign, docSeq, renderedAt, shownAt, shownBefore>>

\* The state of the views, which the hook does not read.
keyVars == <<listener, lastKey>>

fmtVars == <<text, output>>

queueVars == <<queue, committed>>

\* The state of React and of the session around the views.
timerVars == <<timeouts, cleanups, timerLog>>

appVars == <<currentView, session, listeners, keyCleanup>>

chatVars == <<input, isTyping, isProcessingTool, calls, nextCall, applied>>

moreVars == <<queueVars, timerVars, appVars, chatVars>>

viewVars == <<indVars, deferVars, keyVars, fmtVars, moreVars>>

vars == <<storage, accessDenied, history, nextRef, rendered, effectPending,
          lastWrite, unwritten, last, trip, viewVars>>

StorageKeys == {STORAGE_KEY, "other-key"}

\* What the slot may hold when a session starts.
StoredItems ==
    { NoItem,
      Item("empty", <<>>),
      Item("invalid", <<>>),
      Item("number", <<>>),
      Item("string", << <<"0", "\"a\"">>, <<"1", "\"b\"">> >>),
      Item("array", << <<"0", "1">> >>),
      Item("object", << <<"primaryColor", "\"#60a5fa\"">>, <<"darkMode", "false">> >>),
      Item("object", << <<"gridColumns", "4">>, <<"accent", "\"#fff\"">> >>),
      JSONstringify(DEFAULT_DESIGN) }

\* The updaters the controls and the assistant pass: one field set to a value.
PatchUpdaters ==
    UNION {{Updater(TRUE, << <<k, v>> >>) : v \in FieldValues(k)} : k \in SchemaKeys}

\* Literal documents: the defaults with the keys written in another order,
\* and a document that differs from the defaults.
LiteralUpdaters ==
    { Updater(FALSE, << DEFAULT_DESIGN[2], DEFAULT_DESIGN[1], DEFAULT_DESIGN[3] >>),
      Updater(FALSE, Put(DEFAULT_DESIGN, "gridColumns", "4")) }

Updaters == PatchUpdaters \cup LiteralUpdaters

Snapshot(h) ==
    [present |-> h.present,
     canUndo |-> Len(h.past) > 0,
     canRedo |-> Len(h.future) > 0]

NoWrite == [ref |-> -1, key |-> "", ok |-> FALSE]

Op(op, before, value) == [op |-> op, before |-> before, value |-> value]

Trip(phase, n, k, final, initial) ==
    [phase |-> phase, n |-> n, k |-> k, final |-> final, initial |-> initial]

Timer(left) == [armed |-> TRUE, left |-> left]

\* What the keydown listener closes over: canUndo and canRedo of the render
\* whose effect registered it.
Listener(snapshot) == [on |-> TRUE, canUndo |-> snapshot.canUndo, canRedo |-> snapshot.canRedo]

NoListener == [on |-> FALSE, canUndo |-> FALSE, canRedo |-> FALSE]

KeyboardEvent(ctrlKey, metaKey, shiftKey, key) ==
    [ctrlKey |-> ctrlKey, metaKey |-> metaKey, shiftKey |-> shiftKey, key |-> key]

NoKey == [on |-> FALSE, e |-> KeyboardEvent(FALSE, FALSE, FALSE, ""), before |-> History(<<>>, initialValue, <<>>)]

NotRendered == [done |-> FALSE, null |-> FALSE, nodes |-> <<>>]

NoTimer == [armed |-> FALSE, left |-> 0]

\* Playground is mounted: its first render is committed, its effects pending.
PlaygroundInit ==
    /\ isSaved = FALSE
    /\ isFirstRender = TRUE
    /\ saveTimer = NoTimer
    /\ hideTimer = NoTimer
    /\ changeSeen = FALSE
    /\ sinceChange = 0
    /\ savedFor = 0
    /\ deferredDesign = history.present
    /\ docSeq = <<history.present>>
    /\ renderedAt = 1
    /\ shownAt = 1
    /\ shownBefore = 1
    /\ listener = NoListener
    /\ lastKey = NoKey

\* React has rendered the initial state and no updater is queued.
SessionInit ==
    /\ queue = <<>>
    /\ committed = [history |-> history, batch |-> 0]
    /\ timeouts = {}
    /\ cleanups = [save |-> 0, hide |-> 0]
    /\ timerLog = [next |-> 1, cleared |-> {}, fired |-> {}]
    /\ currentView = "PLAYGROUND"
    /\ session = "running"
    /\ listeners = 0
    /\ keyCleanup = FALSE
    /\ input = ""
    /\ isTyping = FALSE
    /\ isProcessingTool = FALSE
    /\ calls = {}
    /\ nextCall = 1
    /\ applied = [on |-> FALSE, sent |-> <<>>, before |-> <<>>, patch |-> <<>>]

\* No text has been given to renderFormattedText.
NoText ==
    /\ text = <<>>
    /\ output = NotRendered

\* The initializer has run with `item` in the slot and the first render is
\* committed; the storage effect of the mount is pending.
HookInit(item, denied) ==
    /\ storage = [k \in StorageKeys |-> IF k = STORAGE_KEY THEN item ELSE NoItem]
    /\ accessDenied = denied
    /\ LET h == initialHistory(item, denied)
       IN  /\ history = h
           /\ nextRef = 2
           /\ rendered = Snapshot(h)
           /\ effectPending = TRUE
           /\ lastWrite = NoWrite
           /\ unwritten = {}
           /\ last = Op("init", h, <<>>)
           /\ trip = Trip("sets", 0, 0, h, h.present)

\* A session starts. What the slot holds cannot be observed when access is
\* denied.
Init ==
    /\ \E item \in StoredItems, denied \in BOOLEAN :
          /\ denied => item = NoItem
          /\ HookInit(item, denied)
    /\ PlaygroundInit
    /\ SessionInit
    /\ NoText

\* An operation replaced present by the object h.present.
Produced(h) ==
    IF h.present.ref # history.present.ref
    THEN unwritten \cup {h.present.ref} ELSE unwritten

TripAfterSet(h) ==
    IF trip.phase = "sets" /\ h # history
    THEN Trip("sets", trip.n + 1, 0, h, trip.initial)
    ELSE Trip("off", 0, 0, h, trip.initial)

TripAfterUndo(h) ==
    IF trip.phase \in {"sets", "undos"} /\ trip.k < trip.n
    THEN Trip("undos", trip.n, trip.k + 1, trip.final, trip.initial)
    ELSE Trip("off", 0, 0, h, trip.initial)

TripAfterRedo(h) ==
    IF trip.phase = "undos" /\ trip.k = trip.n
    THEN Trip("redos", trip.n, 1, trip.final, trip.initial)
    ELSE IF trip.phase = "redos" /\ trip.k < trip.n
    THEN Trip("redos", trip.n, trip.k + 1, trip.final, trip.initial)
    ELSE Trip("off", 0, 0, h, trip.initial)

setState(newState) ==
    LET h == setStateCurr(history, newState, nextRef)
    IN  /\ h # history => nextRef <= MaxRef
        /\ history' = h
        /\ nextRef' = IF h # history THEN nextRef + 1 ELSE nextRef
        /\ last' = Op("set", history, ApplyUpdater(newState, history.present))
        /\ UNCHANGED <<storage, accessDenied, rendered, effectPending, lastWrite>>

undo ==
    LET h == undoCurr(history)
    IN  /\ history' = h
        /\ last' = Op("undo", history, <<>>)
        /\ UNCHANGED <<storage, accessDenied, nextRef, rendered, effectPending, lastWrite>>

redo ==
    LET h == redoCurr(history)
    IN  /\ history' = h
        /\ last' = Op("redo", history, <<>>)
        /\ UNCHANGED <<storage, accessDenied, nextRef, rendered, effectPending, lastWrite>>

\* Render with the effect's dependencies [key] alone: no effect after the mount.
RenderKeyDepOnly ==
    /\ Snapshot(history) # rendered
    /\ ~effectPending
    /\ rendered' = Snapshot(history)
    /\ effectPending' = FALSE
    /\ UNCHANGED <<storage, accessDenied, history, nextRef, lastWrite, last>>

\* React re-renders after the state changed, once the effects of the previous
\* render have run; the storage effect is scheduled when `present` is another
\* object than at the previous render (deps [present, key]).
Render ==
    /\ Snapshot(history) # rendered
    /\ ~effectPending
    /\ rendered' = Snapshot(history)
    /\ effectPending' = (history.present.ref # rendered.present.ref)
    /\ UNCHANGED <<storage, accessDenied, history, nextRef, lastWrite, last>>

\* The storage effect without its try/catch: the error of setItem leaves the
\* effect, React unmounts the tree and the state of the hook is gone.
SyncEffectUncaught(ok) ==
    /\ effectPending
    /\ accessDenied => ~ok
    /\ effectPending' = FALSE
    /\ storage' = IF ok
                  THEN [storage EXCEPT ![STORAGE_KEY] = JSONstringify(rendered.present.kv)]
                  ELSE storage
    /\ lastWrite' = [ref |-> rendered.present.ref, key |-> STORAGE_KEY, ok |-> ok]
    /\ history' = IF ok THEN history ELSE History(<<>>, initialValue, <<>>)
    /\ UNCHANGED <<accessDenied, nextRef, rendered, last>>

\* The storage effect reading the state of the hook instead of the present
\* of the render it belongs to.
SyncEffectWritesLatest(ok) ==
    /\ effectPending
    /\ accessDenied => ~ok
    /\ effectPending' = FALSE
    /\ storage' = IF ok
                  THEN [storage EXCEPT ![STORAGE_KEY] = JSONstringify(history.present.kv)]
                  ELSE storage
    /\ lastWrite' = [ref |-> rendered.present.ref, key |-> STORAGE_KEY, ok |-> ok]
    /\ UNCHANGED <<accessDenied, history, nextRef, rendered, last>>

\* window.localStorage.setItem(key, JSON.stringify(present)) inside try/catch:
\* `ok` is whether setItem returns; it throws when access is denied or the
\* quota is exceeded.
\* In these specifications setItem throws exactly when access is denied.
WriteOutcomes == {~accessDenied}

SyncEffect(ok) ==
    /\ effectPending
    /\ accessDenied => ~ok
    /\ effectPending' = FALSE
    /\ storage' = IF ok
                  THEN [storage EXCEPT ![STORAGE_KEY] = JSONstringify(rendered.present.kv)]
                  ELSE storage
    /\ lastWrite' = [ref |-> rendered.present.ref, key |-> STORAGE_KEY, ok |-> ok]
    /\ UNCHANGED <<accessDenied, history, nextRef, rendered, last>>

Next ==
    \/ (\E newState \in Updaters : setState(newState)) /\ UNCHANGED <<trip, unwritten, viewVars>>
    \/ undo /\ UNCHANGED <<trip, unwritten, viewVars>>
    \/ redo /\ UNCHANGED <<trip, unwritten, viewVars>>
    \/ Render /\ UNCHANGED <<trip, unwritten, viewVars>>
    \/ (\E ok \in WriteOutcomes : SyncEffect(ok)) /\ UNCHANGED <<trip, unwritten, viewVars>>

Spec == Init /\ [][Next]_vars

\* A run of N set calls that each change present, then N undo calls, then N
\* redo calls: the operations alone, with the run's progress kept in trip.
TripNext ==
    \/ \E newState \in Updaters :
          /\ setState(newState)
          /\ trip' = TripAfterSet(history')
          /\ UNCHANGED <<unwritten, viewVars>>
    \/ undo /\ trip' = TripAfterUndo(history') /\ UNCHANGED <<unwritten, viewVars>>
    \/ redo /\ trip' = TripAfterRedo(history') /\ UNCHANGED <<unwritten, viewVars>>

TripSpec == Init /\ [][TripNext]_vars

\* The program as the controls and the assistant drive it, with the presents
\* no setItem call has been given kept in unwritten.
WriteNext ==
    \/ \E newState \in PatchUpdaters :
          /\ setState(newState)
          /\ unwritten' = Produced(history')
          /\ UNCHANGED <<trip, viewVars>>
    \/ undo /\ unwritten' = Produced(history') /\ UNCHANGED <<trip, viewVars>>
    \/ redo /\ unwritten' = Produced(history') /\ UNCHANGED <<trip, viewVars>>
    \/ Render /\ UNCHANGED <<trip, unwritten, viewVars>>
    \/ \E ok \in WriteOutcomes :
          /\ SyncEffect(ok)
          /\ unwritten' = unwritten \ {rendered.present.ref}
          /\ UNCHANGED <<trip, viewVars>>

WriteSpec == Init /\ [][WriteNext]_vars

\* The program with a storage whose setItem may throw at any call
\* (QuotaExceededError) although access is allowed.
QuotaNext ==
    \/ (\E newState \in PatchUpdaters : setState(newState)) /\ UNCHANGED <<trip, unwritten, viewVars>>
    \/ undo /\ UNCHANGED <<trip, unwritten, viewVars>>
    \/ redo /\ UNCHANGED <<trip, unwritten, viewVars>>
    \/ Render /\ UNCHANGED <<trip, unwritten, viewVars>>
    \/ (\E ok \in BOOLEAN : SyncEffect(ok)) /\ UNCHANGED <<trip, unwritten, viewVars>>

QuotaSpec == Init /\ [][QuotaNext]_vars

----------------------------------------------------------------------------
(* Playground: the "saved" indicator *)

\* The delays of the two timeouts, in ms.
D1 == 1000

D2 == 2000

\* Time advances in steps of half the shorter delay.
TickMs == D1 \div 2

\* Elapsed times are counted up to the sum of the two delays.
MaxElapsed == D1 + D2

Due(timer) == timer.armed /\ timer.left = 0

Elapse(timer) == IF timer.armed THEN Timer(timer.left - TickMs) ELSE timer

CountUp(ms) == IF ms + TickMs > MaxElapsed THEN MaxElapsed ELSE ms + TickMs

\* The auto-save effect without the isFirstRender guard.
IndicatorEffectNoSkip ==
    /\ isFirstRender' = FALSE
    /\ isSaved' = FALSE
    /\ saveTimer' = Timer(D1)
    /\ hideTimer' = NoTimer

\* The auto-save effect without setIsSaved(false).
IndicatorEffectNoHide ==
    IF isFirstRender
    THEN /\ isFirstRender' = FALSE
         /\ UNCHANGED <<isSaved, saveTimer, hideTimer>>
    ELSE /\ saveTimer' = Timer(D1)
         /\ UNCHANGED <<isFirstRender, isSaved, hideTimer>>

\* The auto-save effect, deps [design]: it runs with the effects of the mount
\* and of every render whose design is another object. The cleanup of its
\* previous run clears the old timeout. setIsSaved(false) re-renders when
\* isSaved was true, and the cleanup of the auto-hide effect clears its timeout.
IndicatorEffect ==
    IF isFirstRender
    THEN /\ isFirstRender' = FALSE
         /\ UNCHANGED <<isSaved, saveTimer, hideTimer>>
    ELSE /\ isSaved' = FALSE
         /\ saveTimer' = Timer(D1)
         /\ hideTimer' = NoTimer
         /\ UNCHANGED isFirstRender

\* The auto-hide effect that arms no timeout.
AutoHideEffectNoTimer(was) == hideTimer' = hideTimer

\* The auto-hide effect, deps [isSaved], of the render in which isSaved is
\* true; `was` is isSaved at the previous render.
AutoHideEffect(was) == hideTimer' = IF was THEN hideTimer ELSE Timer(D2)

\* The timeout of the auto-save effect fires: setIsSaved(true), and the
\* render that follows runs the auto-hide effect.
SaveTimerFires ==
    /\ Due(saveTimer)
    /\ saveTimer' = NoTimer
    /\ isSaved' = TRUE
    /\ AutoHideEffect(isSaved)
    /\ UNCHANGED isFirstRender

\* The timeout of the auto-hide effect fires: setIsSaved(false).
HideTimerFires ==
    /\ Due(hideTimer)
    /\ hideTimer' = NoTimer
    /\ isSaved' = FALSE
    /\ UNCHANGED <<isFirstRender, saveTimer>>

\* TickMs pass. A timeout fires when its delay has passed; rendering and
\* running effects take no time.
Tick ==
    /\ ~Due(saveTimer) /\ ~Due(hideTimer)
    /\ Snapshot(history) = rendered /\ ~effectPending
    /\ saveTimer.armed \/ hideTimer.armed \/ (changeSeen /\ sinceChange < MaxElapsed)
    /\ saveTimer' = Elapse(saveTimer)
    /\ hideTimer' = Elapse(hideTimer)
    /\ sinceChange' = IF changeSeen THEN CountUp(sinceChange) ELSE sinceChange
    /\ savedFor' = IF isSaved THEN CountUp(savedFor) ELSE savedFor
    /\ UNCHANGED <<isSaved, isFirstRender, changeSeen>>

hookVars == <<storage, accessDenied, history, nextRef, rendered, effectPending,
              lastWrite, last>>

\* The edits made with the controls while the indicator is watched.
IndicatorUpdaters ==
    { Updater(TRUE, << <<"gridColumns", "4">> >>),
      Updater(TRUE, << <<"darkMode", "false">> >>) }

\* A render showed Playground a design that is another object.
SeeChange ==
    /\ changeSeen' = (changeSeen \/ rendered'.present.ref # rendered.present.ref)
    /\ sinceChange' = IF rendered'.present.ref # rendered.present.ref THEN 0 ELSE sinceChange

\* The indicator came on.
SeeSaved == savedFor' = IF isSaved' /\ ~isSaved THEN 0 ELSE savedFor

\* The hook with Playground mounted, as time passes.
IndicatorNext ==
    \/ (\E newState \in IndicatorUpdaters : setState(newState)) /\ UNCHANGED <<trip, unwritten, viewVars>>
    \/ undo /\ UNCHANGED <<trip, unwritten, viewVars>>
    \/ redo /\ UNCHANGED <<trip, unwritten, viewVars>>
    \/ Render /\ SeeChange
          /\ UNCHANGED <<trip, unwritten, deferVars, keyVars, fmtVars, moreVars, isSaved, isFirstRender, saveTimer, hideTimer, savedFor>>
    \/ (\E ok \in WriteOutcomes : SyncEffect(ok)) /\ IndicatorEffect
          /\ UNCHANGED <<trip, unwritten, deferVars, keyVars, fmtVars, moreVars, changeSeen, sinceChange, savedFor>>
    \/ SaveTimerFires /\ SeeSaved /\ UNCHANGED <<hookVars, trip, unwritten, deferVars, keyVars, fmtVars, moreVars, changeSeen, sinceChange>>
    \/ HideTimerFires /\ UNCHANGED <<hookVars, trip, unwritten, deferVars, keyVars, fmtVars, moreVars, changeSeen, sinceChange, savedFor>>
    \/ Tick /\ UNCHANGED <<hookVars, trip, unwritten, deferVars, keyVars, fmtVars, moreVars>>

IndicatorInit ==
    /\ \E item \in {NoItem, JSONstringify(DEFAULT_DESIGN)} : HookInit(item, FALSE)
    /\ PlaygroundInit
    /\ SessionInit
    /\ NoText

IndicatorSpec == IndicatorInit /\ [][IndicatorNext]_vars

\* setItem throws although access is allowed (the quota is exceeded): the
\* catch logs the error, and the auto-save effect of the same commit runs.
QuotaExceeded ==
    /\ SyncEffect(FALSE)
    /\ IndicatorEffect
    /\ UNCHANGED <<trip, unwritten, deferVars, keyVars, fmtVars, moreVars, changeSeen, sinceChange, savedFor>>

\* The hook with Playground mounted, as time passes, with writes that fail.
SavedNext ==
    \/ IndicatorNext
    \/ QuotaExceeded

SavedSpec == IndicatorInit /\ [][SavedNext]_vars

----------------------------------------------------------------------------
(* Playground: the deferred design of the preview *)

\* The changes of the document a session is followed for.
MaxDocs == 5

\* const isStale = design !== deferredDesign
isStale == rendered.present.ref # deferredDesign.ref

\* The place of document d in docSeq, the latest up to place n; 0 when d has
\* not been present.
RECURSIVE ShownAt(_, _)
ShownAt(d, n) ==
    IF n = 0 THEN 0
    ELSE IF docSeq[n].ref = d.ref THEN n
    ELSE ShownAt(d, n - 1)

\* useDeferredValue whose background render never commits.
DeferredRenderNever ==
    /\ isStale
    /\ Snapshot(history) = rendered
    /\ deferredDesign' = deferredDesign

\* useDeferredValue whose background render shows again what was shown
\* before the current value.
DeferredRenderBackwards ==
    /\ isStale
    /\ Snapshot(history) = rendered
    /\ deferredDesign' = IF shownBefore < shownAt THEN docSeq[shownBefore] ELSE rendered.present

\* useDeferredValue(design): a render with a new design returns the previous
\* value and schedules a background render, which returns the design of the
\* last render; pending state updates are rendered first.
DeferredRender ==
    /\ isStale
    /\ Snapshot(history) = rendered
    /\ deferredDesign' = rendered.present

\* An operation made another document present.
DocProduced ==
    /\ history' # history => Len(docSeq) < MaxDocs
    /\ docSeq' = IF history'.present.ref # history.present.ref
                 THEN Append(docSeq, history'.present) ELSE docSeq
    /\ UNCHANGED <<deferredDesign, renderedAt, shownAt, shownBefore>>

DeferSet ==
    \E newState \in IndicatorUpdaters :
        setState(newState) /\ DocProduced /\ UNCHANGED <<trip, unwritten, indVars, keyVars, fmtVars, moreVars>>

DeferUndo == undo /\ DocProduced /\ UNCHANGED <<trip, unwritten, indVars, keyVars, fmtVars, moreVars>>

DeferRedo == redo /\ DocProduced /\ UNCHANGED <<trip, unwritten, indVars, keyVars, fmtVars, moreVars>>

\* The render of a state update: useDeferredValue returns its previous value,
\* which is the new design when the two are the same object.
DeferRender ==
    /\ Render
    /\ renderedAt' = Len(docSeq)
    /\ shownAt' = IF rendered'.present.ref = deferredDesign.ref THEN Len(docSeq) ELSE shownAt
    /\ shownBefore' = IF shownAt' # shownAt THEN shownAt ELSE shownBefore
    /\ UNCHANGED <<trip, unwritten, indVars, keyVars, fmtVars, moreVars, deferredDesign, docSeq>>

DeferEffect ==
    (\E ok \in WriteOutcomes : SyncEffect(ok)) /\ UNCHANGED <<trip, unwritten, viewVars>>

DeferBackground ==
    /\ DeferredRender
    /\ shownAt' = ShownAt(deferredDesign', renderedAt)
    /\ shownBefore' = shownAt
    /\ UNCHANGED <<hookVars, trip, unwritten, indVars, keyVars, fmtVars, moreVars, docSeq, renderedAt>>

DeferNext ==
    \/ DeferSet
    \/ DeferUndo
    \/ DeferRedo
    \/ DeferRender
    \/ DeferEffect
    \/ DeferBackground

\* React runs every render it has scheduled and the effects of every commit;
\* the background render is the last to run.
DeferSpec ==
    /\ IndicatorInit
    /\ [][DeferNext]_vars
    /\ WF_vars(DeferRender)
    /\ WF_vars(DeferEffect)
    /\ WF_vars(DeferBackground)

----------------------------------------------------------------------------
(* Playground: the keyboard shortcuts *)

KeyNames == {"z", "Z", "y", "a"}

KeyboardEvents ==
    {KeyboardEvent(c, m, sh, k) : c \in BOOLEAN, m \in BOOLEAN, sh \in BOOLEAN, k \in KeyNames}

\* What handleKeyDown calls: onUndo, onRedo or nothing.
handleKeyDown(e) ==
    IF listener.on /\ (e.ctrlKey \/ e.metaKey)
    THEN IF e.key = "z"
         THEN IF e.shiftKey
              THEN IF listener.canRedo THEN "onRedo" ELSE "nothing"
              ELSE IF listener.canUndo THEN "onUndo" ELSE "nothing"
         ELSE IF e.key = "y"
         THEN IF listener.canRedo THEN "onRedo" ELSE "nothing"
         ELSE "nothing"
    ELSE "nothing"

\* A keydown event reaches window; without a listener nothing handles it.
KeyDown(e) ==
    /\ CASE handleKeyDown(e) = "onUndo" -> undo
         [] handleKeyDown(e) = "onRedo" -> redo
         [] OTHER -> UNCHANGED hookVars
    /\ lastKey' = [on |-> listener.on, e |-> e, before |-> history]
    /\ UNCHANGED listener

KeySet ==
    \E newState \in IndicatorUpdaters :
        /\ setState(newState)
        /\ lastKey' = NoKey
        /\ UNCHANGED <<trip, unwritten, indVars, deferVars, fmtVars, moreVars, listener>>

KeyPress ==
    \E e \in KeyboardEvents :
        KeyDown(e) /\ UNCHANGED <<trip, unwritten, indVars, deferVars, fmtVars, moreVars>>

\* A render whose canUndo or canRedo changed: the effect, deps [onUndo,
\* onRedo, canUndo, canRedo], removes the listener and adds the new one.
KeyRender ==
    /\ Render
    /\ listener' = IF listener.on THEN Listener(rendered') ELSE listener
    /\ lastKey' = NoKey
    /\ UNCHANGED <<trip, unwritten, indVars, deferVars, fmtVars, moreVars>>

\* The effects of a commit; those of the mount add the listener.
KeyEffect ==
    /\ \E ok \in WriteOutcomes : SyncEffect(ok)
    /\ listener' = Listener(rendered)
    /\ lastKey' = NoKey
    /\ UNCHANGED <<trip, unwritten, indVars, deferVars, fmtVars, moreVars>>

KeyNext ==
    \/ KeySet
    \/ KeyPress
    \/ KeyRender
    \/ KeyEffect

KeySpec == IndicatorInit /\ [][KeyNext]_vars

----------------------------------------------------------------------------
(* ChatBot: the assistant's updateDesign tool *)

\* call.args of updateDesign calls: two fields at once, the default values
\* of two fields in another order, one field, no field, an unknown field.
AssistantPatches ==
    { << <<"gridColumns", "4">>, <<"darkMode", "false">> >>,
      << <<"darkMode", "true">>, <<"gridColumns", "3">> >>,
      << <<"primaryColor", "\"#60a5fa\"">> >>,
      <<>>,
      << <<"accent", "\"#fff\"">> >> }

\* The tool call that makes its arguments the document.
updateDesignReplaces(newSettings) == setState(Updater(FALSE, newSettings))

\* setDesign(prev => ({ ...prev, ...newSettings }))
updateDesign(newSettings) == setState(Updater(TRUE, newSettings))

AssistNext ==
    \/ (\E newSettings \in AssistantPatches : updateDesign(newSettings))
          /\ UNCHANGED <<trip, unwritten, viewVars>>
    \/ (\E newState \in IndicatorUpdaters : setState(newState))
          /\ UNCHANGED <<trip, unwritten, viewVars>>
    \/ undo /\ UNCHANGED <<trip, unwritten, viewVars>>
    \/ redo /\ UNCHANGED <<trip, unwritten, viewVars>>
    \/ Render /\ UNCHANGED <<trip, unwritten, viewVars>>
    \/ (\E ok \in WriteOutcomes : SyncEffect(ok)) /\ UNCHANGED <<trip, unwritten, viewVars>>

\* A session that starts with an empty slot or with a saved document.
AssistInit ==
    /\ \E item \in {NoItem,
                     Item("object", << <<"primaryColor", "\"#60a5fa\"">>, <<"darkMode", "false">> >>)} :
          HookInit(item, FALSE)
    /\ PlaygroundInit
    /\ SessionInit
    /\ NoText

AssistSpec == AssistInit /\ [][AssistNext]_vars

----------------------------------------------------------------------------
(* Playground: renderFormattedText *)

\* The longest text given to renderFormattedText.
MaxLen == 6

\* A letter, the asterisk and the line feed a textarea's Enter key inserts.
Chars == {"a", "*", "\n"}

Texts == UNION {[1..n -> Chars] : n \in 0..MaxLen}

\* `.` of a regular expression without the s flag: no line terminator.
Dot(c) == c # "\n"

Min(S) == CHOOSE x \in S : \A y \in S : x <= y

\* t has w asterisks from place i on.
Asterisks(t, i, w) == i + w - 1 <= Len(t) /\ \A k \in i..(i + w - 1) : t[k] = "*"

\* `.*?` followed by w asterisks, from place lo on: the place of the first
\* closing asterisks that only `.` characters separate from lo; 0 if none.
Lazy(t, lo, w) ==
    LET js == {j \in lo..Len(t) :
                  Asterisks(t, j, w) /\ \A k \in lo..(j - 1) : Dot(t[k])}
    IN  IF js = {} THEN 0 ELSE Min(js)

\* /(\*\*.*?\*\*|\*.*?\*)/ tried at place i: the place of the last character
\* of the match, 0 if no match. The first alternative wins when it matches.
MatchEnd(t, i) ==
    LET bold == IF Asterisks(t, i, 2) THEN Lazy(t, i + 2, 2) ELSE 0
        ital == IF Asterisks(t, i, 1) THEN Lazy(t, i + 1, 1) ELSE 0
    IN  IF bold > 0 THEN bold + 1
        ELSE IF ital > 0 THEN ital
        ELSE 0

\* String.prototype.split with a regular expression that has one capturing
\* group: the pieces between the matches, with each match after the piece
\* before it. p is where the current piece starts, q where the search is.
RECURSIVE split(_, _, _)
split(t, p, q) ==
    IF q > Len(t) THEN << SubSeq(t, p, Len(t)) >>
    ELSE LET e == MatchEnd(t, q)
         IN  IF e = 0 THEN split(t, p, q + 1)
             ELSE << SubSeq(t, p, q - 1), SubSeq(t, q, e) >> \o split(t, e + 1, e + 1)

startsWith(part, w) == Asterisks(part, 1, w)

endsWith(part, w) == Len(part) >= w /\ Asterisks(part, Len(part) - w + 1, w)

\* part.slice(w, -w)
slice(part, w) == SubSeq(part, w + 1, Len(part) - w)

Node(tag, str) == [tag |-> tag, text |-> str]

\* The callback of parts.map.
MapPart(part) ==
    IF startsWith(part, 2) /\ endsWith(part, 2) THEN Node("strong", slice(part, 2))
    ELSE IF startsWith(part, 1) /\ endsWith(part, 1) THEN Node("em", slice(part, 1))
    ELSE Node("text", part)

renderFormattedText(t) ==
    IF t = <<>>
    THEN [done |-> TRUE, null |-> TRUE, nodes |-> <<>>]
    ELSE LET parts == split(t, 1, 1)
         IN  [done |-> TRUE, null |-> FALSE,
              nodes |-> [i \in 1..Len(parts) |-> MapPart(parts[i])]]

\* The preview renders a text of the design.
Format ==
    /\ ~output.done
    /\ output' = renderFormattedText(text)
    /\ UNCHANGED text

FormatNext ==
    Format /\ UNCHANGED <<hookVars, trip, unwritten, indVars, deferVars, keyVars, moreVars>>

FormatInit ==
    /\ HookInit(NoItem, FALSE)
    /\ PlaygroundInit
    /\ SessionInit
    /\ text \in Texts
    /\ output = NotRendered

FormatSpec == FormatInit /\ [][FormatNext]_vars

----------------------------------------------------------------------------
(* React: the queue of the updaters given to setHistory *)

\* The updaters a handler, a listener or a callback may queue before React
\* renders.
MaxQueue == 3

Update(op, newState, ref) == [op |-> op, newState |-> newState, ref |-> ref]

\* The updater function that set, undo or redo gave to setHistory.
Reduce(curr, update) ==
    CASE update.op = "set"  -> setStateCurr(curr, update.newState, update.ref)
      [] update.op = "undo" -> undoCurr(curr)
      [] update.op = "redo" -> redoCurr(curr)

\* Every queued updater given the state of the last render, as if the
\* operations had computed from the `history` of their closure; the last wins.
RECURSIVE processUpdateQueueStale(_, _)
processUpdateQueueStale(base, updates) ==
    IF updates = <<>> THEN base
    ELSE LET rest == processUpdateQueueStale(base, Tail(updates))
         IN  IF Tail(updates) = <<>> THEN Reduce(base, Head(updates)) ELSE rest

\* React calls the queued updaters in the order they were queued, each with
\* the state the one before returned.
RECURSIVE processUpdateQueue(_, _)
processUpdateQueue(base, updates) ==
    IF updates = <<>> THEN base
    ELSE processUpdateQueue(Reduce(base, Head(updates)), Tail(updates))

Enqueue(update) ==
    /\ Len(queue) < MaxQueue
    /\ queue' = Append(queue, update)
    /\ UNCHANGED committed

QueueSet ==
    \E newState \in IndicatorUpdaters :
        /\ setState(newState)
        /\ Enqueue(Update("set", newState, nextRef))
        /\ UNCHANGED <<trip, unwritten, indVars, deferVars, keyVars, fmtVars, timerVars, appVars, chatVars>>

QueueUndo ==
    /\ undo
    /\ Enqueue(Update("undo", Updater(FALSE, <<>>), 0))
    /\ UNCHANGED <<trip, unwritten, indVars, deferVars, keyVars, fmtVars, timerVars, appVars, chatVars>>

QueueRedo ==
    /\ redo
    /\ Enqueue(Update("redo", Updater(FALSE, <<>>), 0))
    /\ UNCHANGED <<trip, unwritten, indVars, deferVars, keyVars, fmtVars, timerVars, appVars, chatVars>>

\* React renders: the state is what the queue makes of the state of the last
\* render, and the storage effect is scheduled when present is another object.
QueueRender ==
    /\ queue # <<>>
    /\ ~effectPending
    /\ LET h == processUpdateQueue(committed.history, queue)
       IN  /\ committed' = [history |-> h, batch |-> Len(queue)]
           /\ rendered' = Snapshot(h)
           /\ effectPending' = (h.present.ref # rendered.present.ref)
    /\ queue' = <<>>
    /\ UNCHANGED <<storage, accessDenied, history, nextRef, lastWrite, last>>
    /\ UNCHANGED <<trip, unwritten, indVars, deferVars, keyVars, fmtVars, timerVars, appVars, chatVars>>

QueueEffect ==
    /\ \E ok \in WriteOutcomes : SyncEffect(ok)
    /\ UNCHANGED <<trip, unwritten, viewVars>>

QueueNext ==
    \/ QueueSet
    \/ QueueUndo
    \/ QueueRedo
    \/ QueueRender
    \/ QueueEffect

QueueSpec == IndicatorInit /\ [][QueueNext]_vars

----------------------------------------------------------------------------
(* Playground: the timeouts of the indicator, one by one *)

\* The timeouts a session is followed for.
MaxTimers == 4

Timeout(id, cb, left) == [id |-> id, cb |-> cb, left |-> left]

\* clearTimeout left out of the cleanups.
clearTimeoutNever(live, id) == live

\* clearTimeout(id): the timeout with this id, if live, will not fire.
clearTimeout(live, id) == {t \in live : t.id # id}

\* The cleanup of an effect run before the effect runs again.
Cleanup(live, id) == IF id = 0 THEN live ELSE clearTimeout(live, id)

Cleared(before, after) == timerLog.cleared \cup {t.id : t \in before \ after}

\* The auto-save effect and, when it turns isSaved off, the auto-hide effect
\* of the render that follows: each runs the cleanup of its previous run first.
TimerIndicatorEffect ==
    IF isFirstRender
    THEN /\ isFirstRender' = FALSE
         /\ UNCHANGED <<isSaved, timeouts, cleanups, timerLog>>
    ELSE LET id == timerLog.next
             afterSave == Cleanup(timeouts, cleanups.save)
             afterHide == IF isSaved THEN Cleanup(afterSave, cleanups.hide) ELSE afterSave
         IN  /\ id <= MaxTimers
             /\ isSaved' = FALSE
             /\ timeouts' = afterHide \cup {Timeout(id, "show", D1)}
             /\ cleanups' = [save |-> id, hide |-> IF isSaved THEN 0 ELSE cleanups.hide]
             /\ timerLog' = [timerLog EXCEPT !.next = id + 1,
                                             !.cleared = Cleared(timeouts, afterHide)]
             /\ UNCHANGED isFirstRender

\* A timeout of the auto-save effect fires: setIsSaved(true); the render that
\* follows, if isSaved was false, runs the auto-hide effect, which arms its
\* timeout.
ShowFires ==
    \E t \in timeouts :
        /\ t.cb = "show" /\ t.left = 0
        /\ isSaved' = TRUE
        /\ IF isSaved
           THEN /\ timeouts' = timeouts \ {t}
                /\ timerLog' = [timerLog EXCEPT !.fired = @ \cup {t.id}]
                /\ UNCHANGED cleanups
           ELSE LET id == timerLog.next
                    after == Cleanup(timeouts \ {t}, cleanups.hide)
                IN  /\ id <= MaxTimers
                    /\ timeouts' = after \cup {Timeout(id, "hide", D2)}
                    /\ cleanups' = [cleanups EXCEPT !.hide = id]
                    /\ timerLog' = [next |-> id + 1,
                                    cleared |-> Cleared(timeouts \ {t}, after),
                                    fired |-> timerLog.fired \cup {t.id}]
        /\ UNCHANGED isFirstRender

\* A timeout of the auto-hide effect fires: setIsSaved(false); the render
\* that follows, if isSaved was true, runs the cleanup of the auto-hide effect.
HideFires ==
    \E t \in timeouts :
        /\ t.cb = "hide" /\ t.left = 0
        /\ isSaved' = FALSE
        /\ LET after == IF isSaved THEN Cleanup(timeouts \ {t}, cleanups.hide)
                        ELSE timeouts \ {t}
           IN  /\ timeouts' = after
               /\ cleanups' = [cleanups EXCEPT !.hide = IF isSaved THEN 0 ELSE @]
               /\ timerLog' = [timerLog EXCEPT !.fired = @ \cup {t.id},
                                               !.cleared = Cleared(timeouts \ {t}, after)]
        /\ UNCHANGED isFirstRender

\* TickMs pass: no timeout is due, and nothing is left to render.
TimerTick ==
    /\ timeouts # {}
    /\ \A t \in timeouts : t.left > 0
    /\ Snapshot(history) = rendered /\ ~effectPending
    /\ timeouts' = {Timeout(t.id, t.cb, t.left - TickMs) : t \in timeouts}
    /\ UNCHANGED <<isSaved, isFirstRender, cleanups, timerLog>>

timerRest == <<trip, unwritten, saveTimer, hideTimer, changeSeen, sinceChange, savedFor,
               deferVars, keyVars, fmtVars, queueVars, appVars, chatVars>>

TimerSet ==
    (\E newState \in IndicatorUpdaters : setState(newState))
        /\ UNCHANGED <<timerRest, isSaved, isFirstRender, timerVars>>

TimerUndo == undo /\ UNCHANGED <<timerRest, isSaved, isFirstRender, timerVars>>

TimerRender == Render /\ UNCHANGED <<timerRest, isSaved, isFirstRender, timerVars>>

TimerEffect ==
    (\E ok \in WriteOutcomes : SyncEffect(ok)) /\ TimerIndicatorEffect /\ UNCHANGED timerRest

TimerNext ==
    \/ TimerSet
    \/ TimerUndo
    \/ TimerRender
    \/ TimerEffect
    \/ ShowFires /\ UNCHANGED <<hookVars, timerRest>>
    \/ HideFires /\ UNCHANGED <<hookVars, timerRest>>
    \/ TimerTick /\ UNCHANGED <<hookVars, timerRest>>

TimerSpec == IndicatorInit /\ [][TimerNext]_vars

----------------------------------------------------------------------------
(* App: the views, and the keydown listener of Playground *)

ViewState == {"PLAYGROUND", "IMAGE_STUDIO", "CHAT", "BLUEPRINT"}

\* An effect cleanup that removes nothing.
removeEventListenerNever(n) == n

\* window.removeEventListener('keydown', handleKeyDown), handleKeyDown being
\* the function the same effect run added.
removeEventListener(n) == IF n > 0 THEN n - 1 ELSE n

\* window.addEventListener('keydown', handleKeyDown)
addEventListener(n) == n + 1

appRest == <<trip, unwritten, indVars, deferVars, keyVars, fmtVars, queueVars, timerVars, chatVars>>

ViewSet ==
    /\ session = "running"
    /\ \E newState \in IndicatorUpdaters : setState(newState)
    /\ UNCHANGED <<appRest, appVars>>

ViewUndo == session = "running" /\ undo /\ UNCHANGED <<appRest, appVars>>

\* A render of a state update. With Playground mounted and canUndo or
\* canRedo changed, the keydown effect runs again: cleanup, then effect.
ViewRender ==
    /\ session = "running"
    /\ Render
    /\ listeners' = IF /\ keyCleanup
                       /\ <<rendered'.canUndo, rendered'.canRedo>>
                             # <<rendered.canUndo, rendered.canRedo>>
                    THEN addEventListener(removeEventListener(listeners))
                    ELSE listeners
    /\ UNCHANGED <<appRest, currentView, session, keyCleanup>>

\* The effects of a commit; those of the mount of Playground add the listener.
ViewEffect ==
    /\ session = "running"
    /\ \E ok \in WriteOutcomes : SyncEffect(ok)
    /\ IF currentView = "PLAYGROUND" /\ ~keyCleanup
       THEN listeners' = addEventListener(listeners) /\ keyCleanup' = TRUE
       ELSE UNCHANGED <<listeners, keyCleanup>>
    /\ UNCHANGED <<appRest, currentView, session>>

\* The sidebar calls setCurrentView(view): App renders, the view that is left
\* unmounts and its cleanups run, the new view mounts and its effects run.
\* React runs the effects of the previous commit first.
onChangeView(view) ==
    /\ session = "running"
    /\ ~effectPending
    /\ view # currentView
    /\ currentView' = view
    /\ IF currentView = "PLAYGROUND"
       THEN /\ listeners' = IF keyCleanup THEN removeEventListener(listeners) ELSE listeners
            /\ keyCleanup' = FALSE
       ELSE IF view = "PLAYGROUND"
       THEN /\ listeners' = addEventListener(listeners)
            /\ keyCleanup' = TRUE
       ELSE UNCHANGED <<listeners, keyCleanup>>
    /\ UNCHANGED session

\* The page is closed or reloaded: its window and the listeners on it are gone.
EndSession ==
    /\ session = "running"
    /\ session' = "ended"
    /\ listeners' = 0
    /\ keyCleanup' = FALSE
    /\ UNCHANGED currentView

ViewNext ==
    \/ ViewSet
    \/ ViewUndo
    \/ ViewRender
    \/ ViewEffect
    \/ (\E view \in ViewState : onChangeView(view)) /\ UNCHANGED <<hookVars, appRest>>
    \/ EndSession /\ UNCHANGED <<hookVars, appRest>>

ViewSpec == IndicatorInit /\ [][ViewNext]_vars

----------------------------------------------------------------------------
(* ChatBot: handleSend *)

\* The runs of handleSend that are followed.
MaxCalls == 2

\* The arguments of the updateDesign calls of the responses.
ChatPatches ==
    { << <<"primaryColor", "\"#60a5fa\"">> >>,
      << <<"gridColumns", "4">>, <<"darkMode", "false">> >> }

\* A run of handleSend awaiting the response of sendMessage: `pc` is the
\* await it is at, `sent` the design of its closure, which went into the
\* prompt.
Call(id, pc, sent) == [id |-> id, pc |-> pc, sent |-> sent]

NotApplied == [on |-> FALSE, sent |-> <<>>, before |-> <<>>, patch |-> <<>>]

chatRest == <<trip, unwritten, indVars, deferVars, keyVars, fmtVars, queueVars, timerVars, appVars>>

\* The loop body that merges the patch over the design of the closure.
executeCallOverSent(call, newSettings) ==
    setState(Updater(FALSE, Spread(call.sent.kv, newSettings)))

\* The loop body for an updateDesign call, in the run `call` of handleSend:
\* setDesign(prev => ({ ...prev, ...newSettings })).
executeCall(call, newSettings) == updateDesign(newSettings)

\* onChange of the input: setInput(e.target.value)
onChange ==
    /\ input = ""
    /\ input' = "hi"
    /\ UNCHANGED <<isTyping, isProcessingTool, calls, nextCall, applied>>

\* handleSend up to its first await. ChatBot has rendered the present there
\* is: its design prop is that document.
handleSend ==
    /\ input # ""
    /\ nextCall <= MaxCalls
    /\ input' = ""
    /\ isTyping' = TRUE
    /\ calls' = calls \cup {Call(nextCall, "first", history.present)}
    /\ nextCall' = nextCall + 1
    /\ UNCHANGED <<isProcessingTool, applied>>

\* The send button: disabled={!input.trim() || isTyping || isProcessingTool}
onClick == ~isTyping /\ ~isProcessingTool /\ handleSend

\* The input: onKeyDown={(e) => e.key === 'Enter' && handleSend()}
onKeyDown == handleSend

\* The first sendMessage returns a response without function calls, or
\* throws: the text or the apology is shown, and `finally` clears both flags.
FirstResponse(call) ==
    /\ call.pc = "first"
    /\ calls' = calls \ {call}
    /\ isTyping' = FALSE
    /\ isProcessingTool' = FALSE
    /\ UNCHANGED <<input, nextCall, applied>>

\* The first sendMessage returns an updateDesign call: the flags switch, the
\* patch is applied and the function response is sent.
ToolResponse(call, newSettings) ==
    /\ call.pc = "first"
    /\ isProcessingTool' = TRUE
    /\ isTyping' = FALSE
    /\ executeCall(call, newSettings)
    /\ applied' = [on |-> TRUE, sent |-> call.sent, before |-> history, patch |-> newSettings]
    /\ calls' = (calls \ {call}) \cup {Call(call.id, "second", call.sent)}
    /\ UNCHANGED <<input, nextCall>>

\* The second sendMessage returns or throws: setIsProcessingTool(false), the
\* text or the apology is shown, and `finally` clears both flags.
SecondResponse(call) ==
    /\ call.pc = "second"
    /\ calls' = calls \ {call}
    /\ isTyping' = FALSE
    /\ isProcessingTool' = FALSE
    /\ UNCHANGED <<input, nextCall, applied>>

\* The edit the user makes while a response is awaited.
ChatUpdaters == { Updater(TRUE, << <<"gridColumns", "4">> >>) }

\* An edit, undo or redo of the user.
ChatEdit ==
    /\ \/ \E newState \in ChatUpdaters : setState(newState)
       \/ undo
       \/ redo
    /\ applied' = NotApplied
    /\ UNCHANGED <<input, isTyping, isProcessingTool, calls, nextCall>>

ChatNext ==
    \/ ChatEdit /\ UNCHANGED chatRest
    \/ onChange /\ UNCHANGED <<hookVars, chatRest>>
    \/ onClick /\ UNCHANGED <<hookVars, chatRest>>
    \/ onKeyDown /\ UNCHANGED <<hookVars, chatRest>>
    \/ (\E call \in calls : FirstResponse(call)) /\ UNCHANGED <<hookVars, chatRest>>
    \/ (\E call \in calls, newSettings \in ChatPatches : ToolResponse(call, newSettings))
          /\ UNCHANGED chatRest
    \/ (\E call \in calls : SecondResponse(call)) /\ UNCHANGED <<hookVars, chatRest>>

ChatInit ==
    /\ HookInit(NoItem, FALSE)
    /\ PlaygroundInit
    /\ SessionInit
    /\ NoText

ChatSpec == ChatInit /\ [][ChatNext]_vars

----------------------------------------------------------------------------
(* The claims *)

\* Deep value equality of two objects: the same keys with the same values,
\* whatever the order the keys were inserted in.
StructEq(a, b) ==
    /\ Keys(a) = Keys(b)
    /\ \A k \in Keys(a) : Get(a, k) = Get(b, k)

LastSet == last.op = "set"

\* The last set call computed a document that serializes as present does.
LastSetSameText ==
    JSONstringify(last.value) = JSONstringify(last.before.present.kv)

\* Nothing is left to render and no effect is pending.
Quiescent == Snapshot(history) = rendered /\ ~effectPending

\* The session has just started: no operation and no write yet, so the slot
\* still holds what the initializer read.
AtBoot == last.op = "init" /\ effectPending

Payload == storage[STORAGE_KEY]

\* C1 (as claimed): a set whose result is structurally equal to present (deep
\* value equality) leaves past, present and future as they were.
C1_EqualSetIsNoop ==
    (LastSet /\ StructEq(last.value, last.before.present.kv))
        => history = last.before

\* C2: a set whose result is not structurally equal to present appends the old
\* present at the end of past, makes the result present and empties future.
C2_SetPushes ==
    (LastSet /\ ~StructEq(last.value, last.before.present.kv))
        => /\ history.past = Append(last.before.past, last.before.present)
           /\ history.present.kv = last.value
           /\ history.future = <<>>

\* C2 witness: a changing set on a history whose past was not empty.
C2_Witness ==
    /\ LastSet
    /\ ~StructEq(last.value, last.before.present.kv)
    /\ Len(last.before.past) >= 1
    /\ Len(history.past) >= 2

\* C3 (as claimed): after any call to set, future is empty.
C3_AnySetClearsFuture == LastSet => history.future = <<>>

\* C3 (amended): after a set that is not a no-op (its result does not
\* serialize as present does) future is empty, whatever it was before.
C3_ChangingSetClearsFuture ==
    (LastSet /\ ~LastSetSameText) => history.future = <<>>

\* C3 witness: a changing set on a history whose future was not empty.
C3_Witness ==
    /\ LastSet
    /\ ~LastSetSameText
    /\ last.before.future # <<>>
    /\ history.future = <<>>

\* C4: undo on a non-empty past makes the last element of past present, drops
\* it from past and puts the old present in front of future.
C4_UndoMoves ==
    (last.op = "undo" /\ last.before.past # <<>>)
        => LET b == last.before
           IN  /\ history.present = b.past[Len(b.past)]
               /\ history.past = SubSeq(b.past, 1, Len(b.past) - 1)
               /\ history.future = <<b.present>> \o b.future

\* C4 witness: an undo with entries on both sides of present.
C4_Witness ==
    /\ last.op = "undo"
    /\ last.before.past # <<>>
    /\ last.before.future # <<>>
    /\ Len(history.future) >= 2

\* C5: redo on a non-empty future makes the first element of future present,
\* drops it from future and puts the old present at the end of past.
C5_RedoMoves ==
    (last.op = "redo" /\ last.before.future # <<>>)
        => LET b == last.before
           IN  /\ history.present = b.future[1]
               /\ history.future = Tail(b.future)
               /\ history.past = Append(b.past, b.present)

\* C5 witness: a redo with entries on both sides of present.
C5_Witness ==
    /\ last.op = "redo"
    /\ last.before.future # <<>>
    /\ last.before.past # <<>>
    /\ Len(history.past) >= 2

\* C6: every undo step on an empty past and every redo step on an empty future
\* leaves past, present and future as they were, and with them what is
\* rendered, the pending effect, the slot and the writes made.
C6_BoundaryIsNoop ==
    [][((undo /\ history.past = <<>>) \/ (redo /\ history.future = <<>>))
          => UNCHANGED <<history, rendered, effectPending, storage, lastWrite>>]_vars

\* C6 witness: an undo past the boundary, after undos that emptied past.
C6_Witness ==
    /\ last.op = "undo"
    /\ last.before.past = <<>>
    /\ last.before.future # <<>>
    /\ history = last.before

\* C7: after N changing sets from the start, N undos give the initial
\* document with an empty past, and N redos after them give back the history
\* as it was before the undos (the final present, past as it was, no future).
C7_RoundTrip ==
    /\ (trip.phase = "undos" /\ trip.k = trip.n)
          => history.present = trip.initial /\ history.past = <<>>
    /\ (trip.phase = "redos" /\ trip.k = trip.n)
          => history = trip.final /\ history.future = <<>>

\* C7 witness: a completed round trip of two sets, two undos and two redos.
C7_Witness ==
    /\ trip.phase = "redos"
    /\ trip.n >= 2
    /\ trip.k = trip.n
    /\ history.present # trip.initial

\* C8 (as claimed): every operation that changes present is followed by a
\* write of that present: once nothing is left to render or run, no present an
\* operation produced is without its write.
C8_EveryChangeIsWritten == Quiescent => unwritten = {}

\* C8 (amended): once nothing is left to render or run, the last setItem call
\* was under the fixed key with the current present, and the slot holds its
\* serialization if that call returned.
C8_RenderedPresentIsWritten ==
    Quiescent =>
        /\ lastWrite.ref = history.present.ref
        /\ lastWrite.key = STORAGE_KEY
        /\ lastWrite.ok => storage[STORAGE_KEY] = JSONstringify(history.present.kv)

\* C8 witness: a changing set, rendered and written.
C8_Witness ==
    /\ Quiescent
    /\ LastSet
    /\ history # last.before
    /\ lastWrite.ok
    /\ lastWrite.ref = history.present.ref

\* C9 (as claimed): a missing, unparseable or non-object payload, or a read
\* that throws, starts the session with present equal to the defaults and
\* empty past and future.
C9_BadPayloadGivesDefaults ==
    (AtBoot /\ (accessDenied \/ Payload.kind # "object"))
        => /\ StructEq(history.present.kv, DEFAULT_DESIGN)
           /\ history.past = <<>>
           /\ history.future = <<>>

\* C10: an object payload is merged field by field over the defaults, the
\* payload's value winning; and a present that was saved with every schema
\* field is what the initializer gives back from the slot.
C10_LoadMergesOverDefaults ==
    /\ (AtBoot /\ ~accessDenied /\ Payload.kind = "object")
          => \A f \in SchemaKeys :
                Get(history.present.kv, f) =
                    IF HasKey(Payload.props, f)
                    THEN Get(Payload.props, f) ELSE Get(DEFAULT_DESIGN, f)
    /\ (lastWrite.ok /\ lastWrite.ref = history.present.ref
           /\ SchemaKeys \subseteq Keys(history.present.kv))
          => StructEq(initialHistory(Payload, FALSE).present.kv, history.present.kv)

\* C10 witness: a payload that has one schema field with another value than
\* the default and lacks another schema field.
C10_Witness ==
    /\ AtBoot
    /\ ~accessDenied
    /\ Payload.kind = "object"
    /\ \E f \in SchemaKeys : ~HasKey(Payload.props, f)
    /\ \E f \in SchemaKeys :
          HasKey(Payload.props, f) /\ Get(Payload.props, f) # Get(DEFAULT_DESIGN, f)

\* C11 (as claimed): keys of the payload that are not schema fields are
\* ignored: the loaded present has schema fields only, and what a save writes
\* to the slot has schema fields only.
C11_ExtraKeysIgnored ==
    /\ (AtBoot /\ ~accessDenied /\ Payload.kind = "object")
          => Keys(history.present.kv) \subseteq SchemaKeys
    /\ lastWrite.ok => Keys(Payload.props) \subseteq SchemaKeys

\* C12: a storage write that fails is caught. The step of the failing write
\* leaves the history state, what is rendered and the slot as they were, and
\* after a failed write every change of the history state is still exactly
\* what set, undo or redo computes from the state before it.
C12_FailedWriteIsCaught ==
    [][ /\ (effectPending /\ ~effectPending' /\ ~lastWrite'.ok)
           => UNCHANGED <<history, nextRef, rendered, storage>>
        /\ (lastWrite.ref >= 0 /\ ~lastWrite.ok /\ history' # history)
           => history' \in {undoCurr(history), redoCurr(history)}
                 \cup {setStateCurr(history, newState, nextRef) : newState \in PatchUpdaters}
      ]_vars

\* A write failed although access is allowed, and a set made after it pushed
\* a new present on the history.
C12_Witness ==
    /\ ~accessDenied
    /\ lastWrite.ref >= 0 /\ ~lastWrite.ok
    /\ rendered.present.ref = lastWrite.ref
    /\ LastSet
    /\ last.before.present.ref = lastWrite.ref
    /\ history.present.ref # lastWrite.ref
    /\ Len(history.past) = Len(last.before.past) + 1

\* No change of the document has been rendered: the rendered history has
\* nothing to undo and nothing to redo.
NoChangeSeen == ~rendered.canUndo /\ ~rendered.canRedo

\* The effects of the last render have run.
EffectsRun == ~effectPending /\ ~isFirstRender

\* C13: from the mount of the indicator until a changed document is rendered,
\* the indicator is idle and neither timeout is armed: the first document
\* value alone triggers nothing.
C13_NoInitialFlash ==
    NoChangeSeen => (~isSaved /\ ~saveTimer.armed /\ ~hideTimer.armed /\ ~changeSeen)

\* The effects of the mount have run and a set that changed nothing was
\* made: the indicator has not moved.
C13_Witness ==
    /\ NoChangeSeen /\ EffectsRun
    /\ LastSet /\ history = last.before
    /\ ~isSaved /\ ~saveTimer.armed

\* C14: once the effects of a render have run, a change of the document less
\* than D1 ago means the indicator is idle and the D1 timeout, restarted at
\* that change, is running; so the indicator is on only if at least D1 has
\* passed since the last change.
C14_Debounce ==
    EffectsRun =>
        /\ (changeSeen /\ sinceChange < D1)
              => (~isSaved /\ saveTimer = Timer(D1 - sinceChange))
        /\ isSaved => (changeSeen /\ sinceChange >= D1)

\* The indicator had been on for less than D2 when a change put it off and
\* restarted the D1 timeout.
C14_Witness ==
    /\ EffectsRun /\ changeSeen /\ sinceChange = 0
    /\ ~isSaved /\ saveTimer = Timer(D1)
    /\ savedFor > 0 /\ savedFor < D2

\* C15: a change followed by D1 without a change turns the indicator on;
\* it goes off after D2 more, or at once when a change arrives, and is never
\* on for longer than D2.
C15_Response ==
    /\ (EffectsRun /\ changeSeen /\ sinceChange >= D1 /\ sinceChange < D1 + D2
           /\ ~Due(saveTimer)) => isSaved
    /\ (EffectsRun /\ changeSeen /\ sinceChange >= D1 + D2 /\ ~Due(hideTimer)) => ~isSaved
    /\ (EffectsRun /\ changeSeen /\ sinceChange = 0) => ~isSaved
    /\ isSaved => (savedFor <= D2 /\ hideTimer = Timer(D2 - savedFor))

\* The indicator was on for D2 after a change and D1 of silence, and is off.
C15_Witness ==
    /\ EffectsRun /\ changeSeen /\ sinceChange = D1 + D2
    /\ savedFor = D2
    /\ ~isSaved /\ ~hideTimer.armed /\ ~saveTimer.armed

\* The lagging document is the latest authoritative document.
Converged ==
    /\ deferredDesign.ref = history.present.ref
    /\ deferredDesign.kv = history.present.kv
    /\ ~isStale

\* C16: once no further change of the authoritative document arrives, the
\* lagging document eventually equals the latest authoritative document and
\* isStale is false, for good.
C16_DeferredConverges == (<>[][FALSE]_history) => <>[]Converged

\* A burst of two changes was made before a render, and the lagging document
\* has caught up with the last of them.
C16_Witness ==
    /\ Converged
    /\ Snapshot(history) = rendered
    /\ shownAt = Len(docSeq)
    /\ shownAt >= shownBefore + 2
    /\ Len(history.past) >= 2

\* C17: the lagging document is always one of the documents that have been
\* present, and each value it takes stands in their sequence at or after the
\* value it had.
C17_DeferredMovesForward ==
    [][ /\ shownAt' >= shownAt
        /\ shownAt' >= 1 /\ shownAt' <= Len(docSeq')
        /\ docSeq'[shownAt'] = deferredDesign' ]_vars

\* The lagging document went from one document to a later one, past a
\* document in between that it never showed.
C17_Witness ==
    /\ shownAt >= shownBefore + 2
    /\ docSeq[shownAt] = deferredDesign
    /\ docSeq[shownBefore + 1].ref # deferredDesign.ref
    /\ docSeq[shownBefore + 1].ref # docSeq[shownBefore].ref

\* C18 (as claimed): a keydown, handled by the listener of Playground, with
\* ctrl or meta and key z performs undo,
\* without shift and when past is not empty, or redo, with shift and when
\* future is not empty; with key y it performs redo when future is not empty;
\* when the stack is empty, and at every keydown without ctrl or meta, the
\* history state is as it was.
C18_Shortcuts ==
    lastKey.on =>
        LET e == lastKey.e
            before == lastKey.before
            mod == e.ctrlKey \/ e.metaKey
        IN  /\ (mod /\ e.key = "z" /\ ~e.shiftKey /\ before.past # <<>>)
                  => history = undoCurr(before)
            /\ (mod /\ e.key = "z" /\ e.shiftKey /\ before.future # <<>>)
                  => history = redoCurr(before)
            /\ (mod /\ e.key = "y" /\ before.future # <<>>)
                  => history = redoCurr(before)
            /\ (mod /\ e.key = "z" /\ ~e.shiftKey /\ before.past = <<>>)
                  => history = before
            /\ (mod /\ e.key \in {"z", "y"} /\ (e.shiftKey \/ e.key = "y")
                    /\ before.future = <<>>)
                  => history = before
            /\ ~mod => history = before

\* The document `old` with the fields of `patch` put over it, field by field.
Overridden(old, patch) ==
    [k \in Keys(old) \cup Keys(patch) |->
        IF HasKey(patch, k) THEN Get(patch, k) ELSE Get(old, k)]

\* The fields of document o as a function.
Fields(o) == [k \in Keys(o) |-> Get(o, k)]

\* Every field of the patch has the value the document has.
AllEqual(old, patch) ==
    \A k \in Keys(patch) : HasKey(old, k) /\ Get(old, k) = Get(patch, k)

\* C19: a patch applied by the assistant leaves the history state a set from
\* the controls would leave: when every field of the patch has its current
\* value the history state stays as it is, and nothing is rendered or written
\* for it; otherwise the old present goes on past, future is emptied, and
\* present is the old document overridden by the fields of the patch.
C19_PatchIsGatedSet ==
    [][ \A newSettings \in AssistantPatches :
          updateDesign(newSettings) =>
            /\ AllEqual(history.present.kv, newSettings)
                 => UNCHANGED <<history, rendered, effectPending, storage, lastWrite>>
            /\ ~AllEqual(history.present.kv, newSettings)
                 => /\ history'.past = Append(history.past, history.present)
                    /\ history'.future = <<>>
                    /\ history'.present.ref # history.present.ref
                    /\ Fields(history'.present.kv)
                          = Overridden(history.present.kv, newSettings)
      ]_vars

\* A patch of two fields was applied to a document with a future: both fields
\* changed, the old present is on past and future is empty.
C19_Witness ==
    /\ LastSet
    /\ last.before.future # <<>>
    /\ history.future = <<>>
    /\ history.past = Append(last.before.past, last.before.present)
    /\ Cardinality({k \in SchemaKeys :
          Get(history.present.kv, k) # Get(last.before.present.kv, k)}) = 2

\* What shows of the nodes: an empty string between two matches shows nothing.
Segments(nodes) == SelectSeq(nodes, LAMBDA n : n.tag # "text" \/ n.text # <<>>)

\* The characters of t from place i up to the next asterisk or the end.
RECURSIVE Run(_, _)
Run(t, i) ==
    IF i > Len(t) \/ t[i] = "*" THEN <<>> ELSE <<t[i]>> \o Run(t, i + 1)

\* The text read from place i on as plain runs, **x** runs and *x* runs with
\* x not empty and without asterisk: [ok, segs], ok false when it is not made
\* of such runs.
RECURSIVE Balanced(_, _)
Balanced(t, i) ==
    IF i > Len(t) THEN [ok |-> TRUE, segs |-> <<>>]
    ELSE LET w == IF Asterisks(t, i, 2) THEN 2 ELSE IF Asterisks(t, i, 1) THEN 1 ELSE 0
             x == Run(t, i + w)
             tag == IF w = 2 THEN "strong" ELSE IF w = 1 THEN "em" ELSE "text"
             closed == w = 0 \/ Asterisks(t, i + w + Len(x), w)
             rest == Balanced(t, i + Len(x) + 2 * w)
         IN  IF x = <<>> \/ ~closed \/ ~rest.ok
             THEN [ok |-> FALSE, segs |-> <<>>]
             ELSE [ok |-> TRUE, segs |-> <<Node(tag, x)>> \o rest.segs]

\* C20 (as claimed): for a text made of plain runs and of **x** and *x* runs
\* that do not nest, what shows is one segment per run, in order: the plain
\* run itself, x in the primary style for **x**, x in the secondary style for
\* *x*; the empty text gives no output.
C20_BalancedRendering ==
    output.done =>
        /\ text = <<>> => output.null
        /\ (text # <<>> /\ Balanced(text, 1).ok)
              => (~output.null /\ Segments(output.nodes) = Balanced(text, 1).segs)

\* The characters that show, node after node.
RECURSIVE Shown(_)
Shown(nodes) ==
    IF nodes = <<>> THEN <<>> ELSE Head(nodes).text \o Shown(Tail(nodes))

NotAsterisk(c) == c # "*"

\* The only asterisks of t are one `*` or one `**`: no pair of delimiters.
LoneDelimiter(t) ==
    LET at == {i \in DOMAIN t : t[i] = "*"}
    IN  \/ Cardinality(at) = 1
        \/ Cardinality(at) = 2 /\ \E i \in at : i + 1 \in at

\* C21 (as claimed): for every text, asterisks that are not a matched pair of
\* delimiters show as they are and no other character is dropped: every
\* character that is not an asterisk shows, in order, and a text whose only
\* asterisks are one lone * or one lone ** shows exactly as it is.
C21_UnbalancedIsLiteral ==
    (output.done /\ text # <<>>) =>
        /\ ~output.null
        /\ SelectSeq(Shown(output.nodes), NotAsterisk) = SelectSeq(text, NotAsterisk)
        /\ LoneDelimiter(text) => Shown(output.nodes) = text

Live(cb) == {t \in timeouts : t.cb = cb}

\* C23: at most one timeout of the quiet period and at most one auto-hide
\* timeout are live, a timeout that was cleared while live never fires, and
\* the timeout an effect's cleanup will clear is the live one.
C23_OneTimerEach ==
    /\ Cardinality(Live("show")) <= 1
    /\ Cardinality(Live("hide")) <= 1
    /\ timerLog.cleared \cap timerLog.fired = {}
    /\ \A t \in Live("show") : cleanups.save = t.id
    /\ \A t \in Live("hide") : cleanups.hide = t.id

\* A change came while the timeout of the quiet period was running: that
\* timeout was cleared, and the new one is the only one live.
C23_Witness ==
    /\ timerLog.cleared # {}
    /\ timerLog.fired = {}
    /\ Cardinality(timeouts) = 1
    /\ \E t \in Live("show") : t.left = D1 /\ t.id = cleanups.save /\ t.id >= 2

\* C24 (as claimed): while the session runs, once the effects of the mount
\* have run, exactly one keydown listener is live, whatever the view; none is
\* live after the session has ended.
C24_OneListenerPerSession ==
    /\ (session = "running" /\ last.op # "init" /\ ~effectPending) => listeners = 1
    /\ session = "ended" => listeners = 0

\* C24 (amended): never more than one keydown listener is live; while the
\* session runs one is live exactly when Playground is the view and its
\* effects have run, and none is live in the other views or after the
\* session has ended.
C24_OneListenerWhileMounted ==
    /\ listeners <= 1
    /\ session = "running"
          => (listeners = 1 <=> (currentView = "PLAYGROUND" /\ keyCleanup))
    /\ (session = "running" /\ currentView = "PLAYGROUND" /\ ~effectPending) => keyCleanup
    /\ session = "ended" => listeners = 0

\* The document was changed and undone while Playground was shown, and the
\* view was then switched to the chat: no listener is live.
C24_Witness ==
    /\ session = "running"
    /\ currentView = "CHAT"
    /\ listeners = 0
    /\ ~keyCleanup
    /\ rendered.canRedo
    /\ ~effectPending

\* The timeline of a history: past, then present, then future.
Timeline(h) == h.past \o <<h.present>> \o h.future

\* C25: no two adjacent entries of past ++ [present] ++ future are
\* structurally equal, and an undo or redo that is not a no-op leaves a
\* present structurally different from the one before.
C25_NoAdjacentEqual ==
    /\ \A i \in 1..(Len(Timeline(history)) - 1) :
          ~StructEq(Timeline(history)[i].kv, Timeline(history)[i + 1].kv)
    /\ (last.op \in {"undo", "redo"} /\ last.before # history)
          => ~StructEq(last.before.present.kv, history.present.kv)

\* C26: an undo or a redo leaves the timeline past ++ [present] ++ future as
\* it was and moves present by at most one place in it, so the lengths of
\* past and future add up to what they did; a redo after an undo on a
\* non-empty past, and an undo after a redo on a non-empty future, give back
\* the past, present and future there were.
C26_TimelineKept ==
    last.op \in {"undo", "redo"} =>
        LET b == last.before
        IN  /\ Timeline(history) = Timeline(b)
            /\ Len(history.past) + Len(history.future) = Len(b.past) + Len(b.future)
            /\ Len(history.past) \in {Len(b.past) - 1, Len(b.past), Len(b.past) + 1}
            /\ (last.op = "undo" /\ b.past # <<>>)
                  => Len(history.past) = Len(b.past) - 1 /\ redoCurr(history) = b
            /\ (last.op = "redo" /\ b.future # <<>>)
                  => Len(history.past) = Len(b.past) + 1 /\ undoCurr(history) = b

\* C26 witness: an undo in the middle of a timeline of three documents.
C26_Witness ==
    /\ last.op = "undo"
    /\ Len(Timeline(history)) >= 3
    /\ last.before.past # <<>>
    /\ last.before.future # <<>>
    /\ redoCurr(history) = last.before
    /\ history # last.before

\* C27: once the effects of the last render have run and the last write
\* succeeded, the slot holds the serialization of the present of that render,
\* whatever was set, undone or redone before it; so at quiescence, at the
\* start of the session as after any operations, the slot holds the
\* serialization of the current present.
C27_StorageFollowsPresent ==
    /\ (~effectPending /\ lastWrite.ok)
          => /\ storage[STORAGE_KEY] = JSONstringify(rendered.present.kv)
             /\ lastWrite.ref = rendered.present.ref
    /\ (Quiescent /\ lastWrite.ok)
          => storage[STORAGE_KEY] = JSONstringify(history.present.kv)
    /\ (Quiescent /\ lastWrite.ok /\ last.op = "init")
          => storage[STORAGE_KEY] = JSONstringify(last.before.present.kv)

\* C27 witness: the document was set and the set undone, all is rendered and
\* written, and the slot holds the present, which is not the document the
\* undone set had made.
C27_Witness ==
    /\ Quiescent
    /\ lastWrite.ok
    /\ last.op = "undo"
    /\ history # last.before
    /\ history.future # <<>>
    /\ storage[STORAGE_KEY] = JSONstringify(history.present.kv)
    /\ storage[STORAGE_KEY] # JSONstringify(last.before.present.kv)

\* C28 (as claimed): whenever the indicator shows "Changes saved", with
\* nothing left to render or run, the slot holds the serialization of the
\* current present, also in runs in which a write failed.
C28_SavedMeansStored ==
    (isSaved /\ Quiescent) => storage[STORAGE_KEY] = JSONstringify(history.present.kv)

\* C29: a patch that arrives after the user changed the document is merged
\* over the present there is when it is applied, not over the document that
\* was sent with the message: the fields the patch names take its values,
\* every other field keeps the value it had just before, and the present and
\* past of just before, with the user's edits, are the new past.
C29_NoLostUpdate ==
    applied.on =>
        LET b == applied.before
            p == applied.patch
        IN  IF AllEqual(b.present.kv, p)
            THEN history = b
            ELSE /\ history.past = Append(b.past, b.present)
                 /\ Fields(history.present.kv) = Overridden(b.present.kv, p)
                 /\ \A k \in Keys(b.present.kv) \ Keys(p) :
                       Get(history.present.kv, k) = Get(b.present.kv, k)
                 /\ \A k \in Keys(p) : Get(history.present.kv, k) = Get(p, k)

\* The user changed a field after the message was sent, and the patch that
\* then arrived names other fields: the present has the user's value of the
\* field, not the one that was sent, and the user's edit is in past.
C29_Witness ==
    /\ applied.on
    /\ applied.sent.ref # applied.before.present.ref
    /\ history.present.ref # applied.before.present.ref
    /\ Len(history.past) >= 2
    /\ \E k \in Keys(history.present.kv) \ Keys(applied.patch) :
          /\ Get(history.present.kv, k) # Get(applied.sent.kv, k)
          /\ Get(history.present.kv, k) = Get(applied.before.present.kv, k)

\* C30 (as claimed): never more than one run of handleSend awaits a response,
\* and isTyping or isProcessingTool is true exactly while one does.
C30_OneRequestInFlight ==
    /\ Cardinality(calls) <= 1
    /\ (isTyping \/ isProcessingTool) <=> calls # {}

====
